---- MODULE Spec2Model ----
(***************************************************************************)
(* Model of CountriesService (src/modules/countries/countries.service.ts)  *)
(* and of the part of CountriesController that calls it.                   *)
(*                                                                         *)
(* The store is the Prisma `country` table, the cache is the single file   *)
(* cache/summary.png.  A run of uploadCountry is cut at its awaits: every  *)
(* action is one external operation completing (source fetch, a store      *)
(* query, the exchange-rate call, the file write) followed by the          *)
(* synchronous code that runs up to the next await.                        *)
(***************************************************************************)
EXTENDS Integers, Sequences, FiniteSets, TLC

\* ------------------------------------------------------------------------
\* Bounds of the model
\* ------------------------------------------------------------------------
MaxRuns == 2
MaxFaults == 1
\* items fetched over all runs
MaxFetched == 11

\* ------------------------------------------------------------------------
\* Values
\* ------------------------------------------------------------------------
\* null / undefined of a numeric column (exchange_rate, estimated_gdp)
Unknown == -1
\* null of currency_code
NoCode == <<>>

\* strings are sequences of characters, so that case conversion is computed
LowerChar(c) ==
  CASE c = "A" -> "a" [] c = "B" -> "b" [] c = "E" -> "e" [] c = "L" -> "l"
    [] c = "N" -> "n" [] c = "U" -> "u" [] c = "X" -> "x" [] c = "F" -> "f"
    [] OTHER -> c

UpperChar(c) ==
  CASE c = "a" -> "A" [] c = "b" -> "B" [] c = "e" -> "E" [] c = "l" -> "L"
    [] c = "n" -> "N" [] c = "u" -> "U" [] c = "x" -> "X" [] c = "f" -> "F"
    [] OTHER -> c

toLowerCase(s) == [k \in DOMAIN s |-> LowerChar(s[k])]

toUpperCase(s) == [k \in DOMAIN s |-> UpperChar(s[k])]

\* capitalizeFirstWord: str.charAt(0).toUpperCase() + str.slice(1)
capitalizeFirstWord(str) ==
  IF str = <<>> THEN <<>>
  ELSE <<UpperChar(str[1])>> \o SubSeq(str, 2, Len(str))

Min(a, b) == IF a < b THEN a ELSE b

\* ------------------------------------------------------------------------
\* Incoming items (interface Countries) and the payloads the source returns
\* ------------------------------------------------------------------------
Country(n, cap, reg, pop, curs, fl) ==
  [kind |-> "country", name |-> n, capital |-> cap, region |-> reg,
   population |-> pop, currencies |-> curs, flag |-> fl]

\* an element without a name: country.name is undefined
NoName == [kind |-> "noname", name |-> <<>>, capital |-> <<>>, region |-> <<>>,
           population |-> 0, currencies |-> <<>>, flag |-> <<>>]

\* a null element of the array
NullItem == [kind |-> "null", name |-> <<>>, capital |-> <<>>, region |-> <<>>,
             population |-> 0, currencies |-> <<>>, flag |-> <<>>]

EUR == <<"E", "U">>
XAF == <<"X", "A">>

Aland == Country(<<"A", "l">>, <<"M">>, <<"E", "u">>, 30000, <<EUR>>, <<"f", "1">>)
\* the same country in another letter case and with refreshed figures
ALAND == Country(<<"A", "L">>, <<"m">>, <<"E", "u">>, 300000, <<EUR, XAF>>, <<"f", "2">>)
Benin == Country(<<"B", "e">>, <<"P">>, <<"A", "f">>, 300000, <<>>, <<"f", "3">>)

Datasets ==
  { <<>>,
    <<Aland>>,
    <<Aland, ALAND>>,
    <<Aland, NoName, NoName, NoName, NoName, NoName, NoName, NoName, NullItem,
      Benin, ALAND>> }

\* what the exchange-rate source may answer: rates by currency code
RateTables ==
  { [c \in {EUR, XAF} |-> 2],
    [c \in {EUR} |-> 3],
    [c \in {XAF} |-> 3],
    [c \in {EUR, XAF} |-> 0] }

\* ------------------------------------------------------------------------
\* The store: the `country` table (id autoincrement, name unique)
\* ------------------------------------------------------------------------
NoRecord ==
  [id |-> 0, name |-> <<>>, capital |-> <<>>, region |-> <<>>, population |-> 0,
   currency_code |-> NoCode, exchange_rate |-> Unknown,
   estimated_gdp |-> Unknown, flag_url |-> <<>>]

\* db.country.findFirst({ where: { name: { equals: n } } })
findFirst(S, n) ==
  IF \E r \in S : r.name = n THEN CHOOSE r \in S : r.name = n ELSE NoRecord

\* a table without the unique index on name
CreateAllowedNoIndex(S, d) == TRUE

\* db.country.create: the unique index on name rejects a second record
CreateAllowed(S, d) == \A r \in S : r.name # d.name

DbCreate(S, d, newId) == S \cup {[d EXCEPT !.id = newId]}

\* db.country.update({ where: { name: n }, data: d }): only the listed columns
UpdateAllowed(S, n) == \E r \in S : r.name = n

\* an update that adds a row with the new figures and keeps the old one
DbUpdateInserts(S, n, d) ==
  S \cup {[d EXCEPT !.id = Cardinality(S) + 1, !.name = n]}

DbUpdate(S, n, d) ==
  { IF r.name = n
      THEN [r EXCEPT !.capital = d.capital, !.region = d.region,
                     !.population = d.population,
                     !.currency_code = d.currency_code,
                     !.exchange_rate = d.exchange_rate,
                     !.estimated_gdp = d.estimated_gdp,
                     !.flag_url = d.flag_url]
      ELSE r : r \in S }

\* a count read off the autoincrement: the highest id handed out
DbCountHighestId(S) ==
  IF S = {} THEN 0 ELSE CHOOSE n \in {r.id : r \in S} : \A r \in S : r.id <= n

\* db.country.count()
DbCount(S) == Cardinality(S)

\* db.country.delete({ where: { name: n } }): rejects (P2025) when no record
\* has that name; the comparison is the column's, exact and case-sensitive
DeleteAllowed(S, n) == \E r \in S : r.name = n

DbDelete(S, n) == {r \in S : r.name # n}

\* orderBy estimated_gdp desc: a comes no later than b.  Where NULLs sort is
\* the database's choice (first in PostgreSQL, last in MySQL and SQLite).
GdpDescBefore(a, b, nf) ==
  IF a.estimated_gdp = Unknown
    THEN nf \/ b.estimated_gdp = Unknown
    ELSE IF b.estimated_gdp = Unknown THEN ~nf
         ELSE a.estimated_gdp >= b.estimated_gdp

RECURSIVE OrderedDesc(_, _)
\* every sequence the query may return for the rows S (ties in any order)
OrderedDesc(S, nf) ==
  IF S = {} THEN {<<>>}
  ELSE UNION { { <<r>> \o t : t \in OrderedDesc(S \ {r}, nf) } :
               r \in {x \in S : \A y \in S : GdpDescBefore(x, y, nf)} }

TopN == 5

\* findMany({ orderBy: { estimated_gdp: 'desc' }, take: 5, select: name, gdp })
TopCountries(S, nf) ==
  { [k \in 1..Min(TopN, Len(q)) |->
       [name |-> q[k].name, estimated_gdp |-> q[k].estimated_gdp]] :
    q \in OrderedDesc(S, nf) }

\* a query parameter that was not given (undefined, or the empty string)
NoArg == <<>>

\* const filters: any = {} before any key is set
NoFilters == [region |-> NoArg, currency_code |-> NoArg, sort |-> ""]

\* the query engine validates `where` against the model's columns: name,
\* capital, region, ... ; a key `sort` is an unknown argument and the call
\* throws a validation error
WhereValid(filters) == filters.sort = ""

\* where: { region: { equals }, currency_code: { equals } }
Matching(S, filters) ==
  { r \in S :
      /\ filters.region # NoArg => r.region = filters.region
      /\ filters.currency_code # NoArg => r.currency_code = filters.currency_code }

Reverse(q) == [k \in DOMAIN q |-> q[Len(q) + 1 - k]]

RECURSIVE AnyOrder(_)
\* rows read without ORDER BY come in whatever order the database has them
AnyOrder(S) ==
  IF S = {} THEN {<<>>}
  ELSE UNION { { <<r>> \o t : t \in AnyOrder(S \ {r}) } : r \in S }

\* db.country.findMany({ where, orderBy: { estimated_gdp: order } }): the
\* sequences the database may return; without an order any sequence of the
\* matching rows, ascending the reverse of descending
findMany(S, filters, order, nf) ==
  CASE order = "desc" -> OrderedDesc(Matching(S, filters), nf)
    [] order = "asc" -> {Reverse(q) : q \in OrderedDesc(Matching(S, filters), nf)}
    [] OTHER -> AnyOrder(Matching(S, filters))

\* ------------------------------------------------------------------------
\* Report rendering
\* ------------------------------------------------------------------------
\* (estimated_gdp / 1e9).toFixed(2), in hundredths; null / 1e9 is 0
GdpBillions(g) == IF g = Unknown THEN 0 ELSE (g + 5000000) \div 10000000

yPos == 210
lineSpacing == 40
svgWidth == 800

\* the description of the canvas; the wall-clock timestamp line is left out
generateSVG(totalCountries, topCountries) ==
  [width |-> svgWidth,
   height |-> yPos + Len(topCountries) * lineSpacing + 100,
   total |-> totalCountries,
   items |-> [k \in DOMAIN topCountries |->
                [rank |-> k, name |-> topCountries[k].name,
                 gdpBillions |-> GdpBillions(topCountries[k].estimated_gdp),
                 y |-> yPos + (k - 1) * lineSpacing]]]

\* no file cache/summary.png
NoBitmap == [width |-> 0, height |-> 0, total |-> 0, items |-> <<>>]

\* sharp(Buffer.from(svg)).png(): the pixels of the described canvas
Rasterize(svg) == svg

\* ------------------------------------------------------------------------
\* Estimation
\* ------------------------------------------------------------------------
\* Math.random() * (2000 - 1000) + 1000, a real in [1000, 2000)
CreateMultipliers == {1000, 1500}

\* Math.floor(Math.random() * (2000 - 1000 + 1)) + 1000, an integer 1000..2000
UpdateMultipliers == {1000, 2000}

calculateEstimatedGdp(exchangeRate, population, multiplier) ==
  IF exchangeRate = Unknown THEN Unknown
  ELSE population * multiplier * exchangeRate

\* population * (existing.exchange_rate || 0) * multiplier
RefetchedGdp(existing, population, multiplier) ==
  population *
    (IF existing.exchange_rate \in {Unknown, 0} THEN 0
     ELSE existing.exchange_rate) * multiplier

\* a resolver that falls back to parity when it has no rate
getExchangeRateParity(currency_code, reply, rates) ==
  IF reply = "ok" /\ currency_code \in DOMAIN rates /\ rates[currency_code] # 0
    THEN rates[currency_code]
    ELSE 1

\* getExchangeRate: data.rates[code] || null, null on any failure
getExchangeRate(currency_code, reply, rates) ==
  IF reply # "ok" THEN Unknown
  ELSE IF currency_code \in DOMAIN rates /\ rates[currency_code] # 0
         THEN rates[currency_code]
         ELSE Unknown

\* the last listed code instead of the first
LastCurrency(country) ==
  IF Len(country.currencies) = 0 THEN NoCode
  ELSE country.currencies[Len(country.currencies)]

\* country.currencies?.[0]?.code ?? null
FirstCurrency(country) ==
  IF Len(country.currencies) = 0 THEN NoCode ELSE country.currencies[1]

\* ------------------------------------------------------------------------
\* State
\* ------------------------------------------------------------------------
VARIABLES
  store,          \* rows of the country table
  nextId,         \* next autoincrement id
  cache,          \* content of cache/summary.png, NoBitmap when absent
  nullsFirst,     \* the database sorts NULL first in a descending order
  apiConfigured,  \* COUNTRY_DATA_API is set
  rpc,            \* position of uploadCountry: idle, fetch, batch, done
  data,           \* the fetched dataset
  i,              \* loop variable of the batch loop (0-based offset)
  processed,      \* counters of the run
  created,
  updated,
  task,           \* the item tasks of the run, by position in data
  outcome,        \* what uploadCountry returned or threw
  resp,           \* what the last read operation returned or threw
  faults,         \* store / encoder failures injected so far
  runs,           \* runs started so far
  fetched,        \* items fetched so far, over all runs
  runsOk,         \* runs that returned their counters so far
  lastData,       \* the dataset of the latest run that returned its counters
  other,          \* a second uploadCountry call that overlaps the run
  storeAtCall,    \* store and cache when the current run was called
  cacheAtCall,
  cause           \* why the fetch stage of the current run failed, or "none"

vars == <<store, nextId, cache, nullsFirst, apiConfigured, rpc, data, i,
          processed, created, updated, task, outcome, resp, faults, runs,
          fetched, runsOk, lastData, other, storeAtCall,
          cacheAtCall, cause>>

batchSize == 10

NoData == [name |-> <<>>, capital |-> <<>>, region |-> <<>>, population |-> 0,
           currency_code |-> NoCode, exchange_rate |-> Unknown,
           estimated_gdp |-> Unknown, flag_url |-> <<>>, id |-> 0]

\* an item task that has not been started
IdleTask ==
  [pc |-> "idle", nameLower |-> <<>>, existing |-> NoRecord, write |-> NoData,
   path |-> "none", exchangeRate |-> Unknown, calls |-> 0,
   reply |-> "none", quoted |-> Unknown,
   totalCountries |-> 0, topCountries |-> <<>>,
   result |-> "none", starts |-> 0, batchNo |-> 0, wrote |-> FALSE]

NoOutcome == [kind |-> "none", status |-> 0, message |-> "",
              created |-> 0, updated |-> 0, total |-> 0]

\* no second call is in progress
OtherOff ==
  [pc |-> "off", data |-> <<>>, todo |-> {}, k |-> 0, write |-> NoData,
   totalCountries |-> 0, topCountries |-> <<>>,
   created |-> 0, updated |-> 0, failed |-> 0]

NoResp == [op |-> "none", status |-> 0, body |-> NoBitmap, rows |-> <<>>,
           total_countries |-> 0]

HttpException(msg, st) ==
  [kind |-> "HttpException", status |-> st, message |-> msg,
   created |-> 0, updated |-> 0, total |-> 0]

\* new Error(msg)
PlainError(msg) ==
  [kind |-> "Error", status |-> 0, message |-> msg,
   created |-> 0, updated |-> 0, total |-> 0]

INTERNAL_SERVER_ERROR == 500
SERVICE_UNAVAILABLE == 503
NO_CONTENT == 204

NOT_FOUND == 404
REQUEST_TIMEOUT == 408
BAD_GATEWAY == 502

\* catch (apiErr) of the fetch: always throws this, whatever apiErr is
FetchCatch(apiErr) ==
  HttpException("External data source unavailable", SERVICE_UNAVAILABLE)

\* the outer catch (err) of uploadCountry: always throws this, whatever err is
UploadCatch(err) ==
  HttpException("Failed to upload countries", INTERNAL_SERVER_ERROR)

\* the table when the service starts: empty, or holding a record of an earlier
\* deployment whose currency could not be resolved
InitStores ==
  { {},
    { [id |-> 1, name |-> <<"a", "l">>, capital |-> <<"M">>,
       region |-> <<"E", "u">>, population |-> 30000, currency_code |-> EUR,
       exchange_rate |-> Unknown, estimated_gdp |-> Unknown,
       flag_url |-> <<"f", "1">>] } }

Init ==
  /\ store \in InitStores
  /\ nextId = Cardinality(store) + 1
  /\ cache = NoBitmap
  /\ nullsFirst \in BOOLEAN
  /\ apiConfigured \in BOOLEAN
  /\ rpc = "idle"
  /\ data = <<>>
  /\ i = 0
  /\ processed = 0
  /\ created = 0
  /\ updated = 0
  /\ task = <<>>
  /\ outcome = NoOutcome
  /\ resp = NoResp
  /\ faults = 0
  /\ runs = 0
  /\ fetched = 0
  /\ runsOk = 0
  /\ lastData = <<>>
  /\ other = OtherOff
  /\ storeAtCall = {}
  /\ cacheAtCall = NoBitmap
  /\ cause = "none"

\* ------------------------------------------------------------------------
\* uploadCountry
\* ------------------------------------------------------------------------
\* the run throws err: the outer catch replaces it
Fails(err) ==
  /\ rpc' = "done"
  /\ outcome' = UploadCatch(err)

\* POST /countries/refresh: the code up to the await of axios.get
CallUpload ==
  /\ rpc = "idle"
  /\ runs < MaxRuns
  /\ runs' = runs + 1
  /\ storeAtCall' = store
  /\ cacheAtCall' = cache
  /\ IF ~apiConfigured
       THEN /\ Fails(HttpException("COUNTRY_DATA_API is not defined",
                                   INTERNAL_SERVER_ERROR))
            /\ cause' = "config"
       ELSE /\ rpc' = "fetch"
            /\ outcome' = NoOutcome
            /\ cause' = "none"
  /\ resp' = NoResp
  /\ UNCHANGED <<store, nextId, cache, nullsFirst, apiConfigured, data, i,
                 processed, created, updated, task, faults, fetched, runsOk,
                 lastData, other>>

\* batch.map(async (country) => ...): the synchronous start of an item task,
\* up to its first await, for the items first+1 .. last of d
StartTask(country, n) ==
  IF country.kind = "null"
    THEN [IdleTask EXCEPT !.pc = "done", !.result = "rejected", !.batchNo = n]
  ELSE IF country.kind = "noname"
    THEN [IdleTask EXCEPT !.pc = "done", !.result = "failed", !.batchNo = n]
  ELSE [IdleTask EXCEPT !.pc = "find", !.nameLower = toLowerCase(country.name),
                        !.batchNo = n]

\* every remaining item started at once, without waiting for the batch
StartBatchAll(tk, d, first) ==
  [j \in DOMAIN tk |->
     IF j > first
       THEN [StartTask(d[j], first \div batchSize + 1)
               EXCEPT !.starts = tk[j].starts + 1]
       ELSE tk[j]]

StartBatch(tk, d, first) ==
  [j \in DOMAIN tk |->
     IF j > first /\ j <= first + batchSize
       THEN [StartTask(d[j], first \div batchSize + 1)
               EXCEPT !.starts = tk[j].starts + 1]
       ELSE tk[j]]

\* return { created, updated, total: processed }
Returns(c, u, p) ==
  /\ rpc' = "done"
  /\ outcome' = [kind |-> "result", status |-> 201, message |-> "",
                 created |-> c, updated |-> u, total |-> p]
  /\ runsOk' = runsOk + 1

FetchErrors == {"timeout", "http500", "network"}

\* a run that empties the table before it knows the fetch succeeded
FetchFailedWipes(apiErr) ==
  /\ Fails(FetchCatch(apiErr))
  /\ cause' = apiErr
  /\ store' = {}
  /\ UNCHANGED <<nextId, cache, data, task, runsOk>>

\* catch (apiErr): nothing has been written, the run throws
FetchFailed(apiErr) ==
  /\ Fails(FetchCatch(apiErr))
  /\ cause' = apiErr
  /\ UNCHANGED <<store, nextId, cache, data, task, runsOk>>

\* if (!Array.isArray(data)) throw new Error(...)
NotAnArray ==
  /\ Fails(PlainError("Invalid API response: expected array"))
  /\ cause' = "notarray"
  /\ UNCHANGED <<store, nextId, cache, data, task, runsOk>>

\* the await of axios.get settles
FetchReturn ==
  /\ rpc = "fetch"
  /\ \/ /\ \E apiErr \in FetchErrors : FetchFailed(apiErr)
        /\ UNCHANGED fetched
     \/ /\ NotAnArray
        /\ UNCHANGED fetched
     \/ \E d \in Datasets :
          /\ fetched + Len(d) <= MaxFetched
          /\ fetched' = fetched + Len(d)
          /\ data' = d
          /\ IF Len(d) = 0
               THEN /\ Returns(created, updated, processed)
                    /\ task' = <<>>
               ELSE /\ task' = StartBatch([j \in 1..Len(d) |-> IdleTask], d, 0)
                    /\ rpc' = "batch"
                    /\ UNCHANGED <<outcome, runsOk>>
          /\ UNCHANGED <<store, nextId, cache, cause>>
  /\ UNCHANGED <<nullsFirst, apiConfigured, i, processed, created, updated,
                 resp, faults, runs, lastData, other, storeAtCall,
                 cacheAtCall>>

\* ------------------------------------------------------------------------
\* One item task of the current batch, cut at its awaits
\* ------------------------------------------------------------------------
InBatch(j) == rpc = "batch" /\ j \in DOMAIN task /\ j > i /\ j <= i + batchSize

\* a task whose promise stays pending
SettledNever(tk, res) ==
  [IdleTask EXCEPT !.pc = "pending", !.result = res, !.starts = tk.starts,
                   !.batchNo = tk.batchNo, !.wrote = tk.wrote]

\* a settled task: its locals are gone, its result is left in batchResults
Settled(tk, res) ==
  [IdleTask EXCEPT !.pc = "done", !.result = res, !.starts = tk.starts,
                   !.batchNo = tk.batchNo, !.wrote = tk.wrote]

\* an item error that is not caught and rejects the whole run
CaughtPropagates(j) ==
  /\ task' = [task EXCEPT ![j] = Settled(task[j], "failed")]
  /\ Fails(PlainError("item"))

\* catch (itemErr): the task fulfils with { status: 'failed' }
Caught(j) ==
  /\ task' = [task EXCEPT ![j] = Settled(task[j], "failed")]
  /\ UNCHANGED <<rpc, outcome>>

\* the task goes on to its next await
Goes(j, tk) ==
  /\ task' = [task EXCEPT ![j] = tk]
  /\ UNCHANGED <<rpc, outcome>>

\* a store or encoder operation of task j rejects
Throws(j) ==
  /\ faults < MaxFaults
  /\ faults' = faults + 1
  /\ Caught(j)

RunFrame == <<nullsFirst, apiConfigured, data, i, processed, resp, runs,
              fetched, runsOk, lastData, other, storeAtCall, cacheAtCall,
              cause>>

\* const newCountry = { name: nameLower, capital, region, population,
\* currency_code, exchange_rate, estimated_gdp, flag_url: country.flag }
newCountry(nameLower, country, currencyCode, exchangeRate, estimated_gdp) ==
  [NoData EXCEPT
     !.name = nameLower,
     !.capital = country.capital,
     !.region = country.region,
     !.population = country.population,
     !.currency_code = currencyCode,
     !.exchange_rate = exchangeRate,
     !.estimated_gdp = estimated_gdp,
     !.flag_url = country.flag]

\* an update that takes currency and flag from the incoming item
UpdateDataFromItem(existing, country, multiplier) ==
  [NoData EXCEPT
     !.capital = country.capital,
     !.region = country.region,
     !.population = country.population,
     !.currency_code = FirstCurrency(country),
     !.exchange_rate = existing.exchange_rate,
     !.estimated_gdp = RefetchedGdp(existing, country.population, multiplier),
     !.flag_url = country.flag]

\* the data of db.country.update for an existing record: capital, region and
\* population from the item, a refreshed estimate, and the record's own
\* currency_code, exchange_rate and flag_url written back
UpdateData(existing, country, multiplier) ==
  [NoData EXCEPT
     !.capital = country.capital,
     !.region = country.region,
     !.population = country.population,
     !.currency_code = existing.currency_code,
     !.exchange_rate = existing.exchange_rate,
     !.estimated_gdp = RefetchedGdp(existing, country.population, multiplier),
     !.flag_url = existing.flag_url]

\* await db.country.findFirst, then the code up to the next await
Find(j) ==
  /\ InBatch(j)
  /\ task[j].pc = "find"
  /\ \/ Throws(j)
     \/ /\ LET country == data[j]
               existing == findFirst(store, task[j].nameLower)
               currencyCode == FirstCurrency(country)
           IN IF existing # NoRecord
                THEN \E multiplier \in UpdateMultipliers :
                       Goes(j, [task[j] EXCEPT
                         !.pc = "update",
                         !.path = "updated",
                         !.existing = existing,
                         !.write = UpdateData(existing, country,
                                              multiplier)])
                ELSE IF currencyCode # NoCode
                  THEN Goes(j, [task[j] EXCEPT !.pc = "rate",
                                               !.path = "created"])
                  ELSE Goes(j, [task[j] EXCEPT
                         !.pc = "create",
                         !.path = "created",
                         !.exchangeRate = Unknown,
                         !.write =
                           newCountry(task[j].nameLower, country, currencyCode,
                                      Unknown,
                                      calculateEstimatedGdp(Unknown,
                                        country.population, 1000))])
        /\ UNCHANGED faults
  /\ UNCHANGED <<store, nextId, cache, created, updated>>
  /\ UNCHANGED RunFrame

\* await this.getExchangeRate(currencyCode), then calculateEstimatedGdp
Rate(j) ==
  /\ InBatch(j)
  /\ task[j].pc = "rate"
  /\ \E reply \in {"ok", "timeout", "error"}, rates \in RateTables,
        multiplier \in CreateMultipliers :
       LET country == data[j]
           currencyCode == FirstCurrency(country)
           exchangeRate == getExchangeRate(currencyCode, reply, rates)
       IN Goes(j, [task[j] EXCEPT
            !.pc = "create",
            !.calls = task[j].calls + 1,
            !.reply = reply,
            !.quoted = IF reply = "ok" /\ currencyCode \in DOMAIN rates
                         THEN rates[currencyCode] ELSE Unknown,
            !.exchangeRate = exchangeRate,
            !.write =
              newCountry(task[j].nameLower, country, currencyCode,
                         exchangeRate,
                         calculateEstimatedGdp(exchangeRate, country.population,
                                               multiplier))])
  /\ UNCHANGED <<store, nextId, cache, created, updated, faults>>
  /\ UNCHANGED RunFrame

\* an update path that returns right after updated++, without a render
UpdateWithoutRender(j) ==
  /\ InBatch(j)
  /\ task[j].pc = "update"
  /\ \/ /\ Throws(j)
        /\ UNCHANGED <<store, updated>>
     \/ /\ ~UpdateAllowed(store, task[j].nameLower)
        /\ Caught(j)
        /\ UNCHANGED <<store, updated, faults>>
     \/ /\ UpdateAllowed(store, task[j].nameLower)
        /\ store' = DbUpdate(store, task[j].nameLower, task[j].write)
        /\ updated' = updated + 1
        /\ Goes(j, Settled([task[j] EXCEPT !.wrote = TRUE], "updated"))
        /\ UNCHANGED faults
  /\ UNCHANGED <<nextId, cache, created>>
  /\ UNCHANGED RunFrame

\* await db.country.update, then updated++
Update(j) ==
  /\ InBatch(j)
  /\ task[j].pc = "update"
  /\ \/ /\ Throws(j)
        /\ UNCHANGED <<store, updated>>
     \/ /\ ~UpdateAllowed(store, task[j].nameLower)
        /\ Caught(j)
        /\ UNCHANGED <<store, updated, faults>>
     \/ /\ UpdateAllowed(store, task[j].nameLower)
        /\ store' = DbUpdate(store, task[j].nameLower, task[j].write)
        /\ updated' = updated + 1
        /\ Goes(j, [task[j] EXCEPT !.pc = "count", !.wrote = TRUE])
        /\ UNCHANGED faults
  /\ UNCHANGED <<nextId, cache, created>>
  /\ UNCHANGED RunFrame

\* a create path that counts the item before the store has accepted it
CreateCountsFirst(j) ==
  /\ InBatch(j)
  /\ task[j].pc = "create"
  /\ \/ /\ Throws(j)
        /\ UNCHANGED <<store, nextId, created>>
     \/ /\ ~CreateAllowed(store, task[j].write)
        /\ created' = created + 1
        /\ Caught(j)
        /\ UNCHANGED <<store, nextId, faults>>
     \/ /\ CreateAllowed(store, task[j].write)
        /\ store' = DbCreate(store, task[j].write, nextId)
        /\ nextId' = nextId + 1
        /\ created' = created + 1
        /\ Goes(j, [task[j] EXCEPT !.pc = "count", !.wrote = TRUE])
        /\ UNCHANGED faults
  /\ UNCHANGED <<cache, updated>>
  /\ UNCHANGED RunFrame

\* await db.country.create, then created++
Create(j) ==
  /\ InBatch(j)
  /\ task[j].pc = "create"
  /\ \/ /\ Throws(j)
        /\ UNCHANGED <<store, nextId, created>>
     \/ /\ ~CreateAllowed(store, task[j].write)
        /\ Caught(j)
        /\ UNCHANGED <<store, nextId, created, faults>>
     \/ /\ CreateAllowed(store, task[j].write)
        /\ store' = DbCreate(store, task[j].write, nextId)
        /\ nextId' = nextId + 1
        /\ created' = created + 1
        /\ Goes(j, [task[j] EXCEPT !.pc = "count", !.wrote = TRUE])
        /\ UNCHANGED faults
  /\ UNCHANGED <<cache, updated>>
  /\ UNCHANGED RunFrame

\* generateSummaryImage: await db.country.count()
RenderCount(j) ==
  /\ InBatch(j)
  /\ task[j].pc = "count"
  /\ \/ Throws(j)
     \/ /\ Goes(j, [task[j] EXCEPT !.pc = "top",
                                   !.totalCountries = DbCount(store)])
        /\ UNCHANGED faults
  /\ UNCHANGED <<store, nextId, cache, created, updated>>
  /\ UNCHANGED RunFrame

\* generateSummaryImage: await db.country.findMany (top 5)
RenderTop(j) ==
  /\ InBatch(j)
  /\ task[j].pc = "top"
  /\ \/ Throws(j)
     \/ /\ \E top \in TopCountries(store, nullsFirst) :
             Goes(j, [task[j] EXCEPT !.pc = "write", !.topCountries = top])
        /\ UNCHANGED faults
  /\ UNCHANGED <<store, nextId, cache, created, updated>>
  /\ UNCHANGED RunFrame

\* generateSummaryImage: generateSVG, await sharp(...).png().toFile(imagePath),
\* then the task returns { status: 'updated' | 'created' }
RenderWrite(j) ==
  /\ InBatch(j)
  /\ task[j].pc = "write"
  /\ \/ /\ Throws(j)
        /\ UNCHANGED cache
     \/ /\ cache' = Rasterize(generateSVG(task[j].totalCountries,
                                          task[j].topCountries))
        /\ Goes(j, Settled(task[j], task[j].path))
        /\ UNCHANGED faults
  /\ UNCHANGED <<store, nextId, created, updated>>
  /\ UNCHANGED RunFrame

\* Promise.allSettled of the batch resolves: processed += batch.length, the
\* loop starts the next batch or the run returns
BatchSettled ==
  /\ rpc = "batch"
  /\ \A j \in DOMAIN task : (j > i /\ j <= i + batchSize) => task[j].pc = "done"
  /\ LET batchLength == Min(i + batchSize, Len(data)) - i
     IN /\ processed' = processed + batchLength
        /\ i' = i + batchSize
        /\ IF i + batchSize < Len(data)
             THEN /\ task' = StartBatch(task, data, i + batchSize)
                  /\ UNCHANGED <<rpc, outcome, runsOk>>
             ELSE /\ Returns(created, updated, processed + batchLength)
                  /\ UNCHANGED task
  /\ UNCHANGED <<store, nextId, cache, nullsFirst, apiConfigured, data,
                 created, updated, resp, faults, runs, fetched, lastData,
                 other, storeAtCall, cacheAtCall, cause>>

\* CountriesController.uploadCountry hands the result or the error on
Respond ==
  /\ rpc = "done"
  /\ rpc' = "idle"
  /\ data' = <<>>
  /\ task' = <<>>
  /\ i' = 0
  /\ processed' = 0
  /\ created' = 0
  /\ updated' = 0
  /\ outcome' = NoOutcome
  /\ storeAtCall' = {}
  /\ cacheAtCall' = NoBitmap
  /\ cause' = "none"
  /\ lastData' = IF outcome.kind = "result" THEN data ELSE lastData
  /\ UNCHANGED <<store, nextId, cache, nullsFirst, apiConfigured, resp, faults,
                 runs, fetched, runsOk, other>>

\* ------------------------------------------------------------------------
\* Read operations
\* ------------------------------------------------------------------------
\* GET /countries/image
getSummaryImage ==
  /\ rpc = "idle"
  /\ \/ /\ resp' = IF cache = NoBitmap
                     THEN [NoResp EXCEPT !.op = "image", !.status = NOT_FOUND]
                     ELSE [NoResp EXCEPT !.op = "image", !.status = 200,
                                         !.body = cache]
        /\ UNCHANGED faults
     \/ \* fs.readFileSync throws: the catch turns it into a 500
        /\ cache # NoBitmap
        /\ faults < MaxFaults
        /\ faults' = faults + 1
        /\ resp' = [NoResp EXCEPT !.op = "image",
                                   !.status = INTERNAL_SERVER_ERROR]
  /\ UNCHANGED <<store, nextId, cache, nullsFirst, apiConfigured, rpc, data, i,
                 processed, created, updated, task, outcome, runs, fetched,
                 runsOk, lastData, other, storeAtCall, cacheAtCall, cause>>

\* GET /countries/:name: the controller lower-cases the name, the service
\* looks it up and throws NotFoundException when there is no such record
getSingleCountry(name) ==
  /\ rpc = "idle"
  /\ \/ /\ LET formattedName == toLowerCase(name)
               found == findFirst(store, formattedName)
           IN resp' = IF found = NoRecord
                        THEN [NoResp EXCEPT !.op = "get", !.status = NOT_FOUND]
                        ELSE [NoResp EXCEPT !.op = "get", !.status = 200,
                                            !.rows = <<found>>]
        /\ UNCHANGED faults
     \/ \* findFirst rejects: the catch turns it into a 500
        /\ faults < MaxFaults
        /\ faults' = faults + 1
        /\ resp' = [NoResp EXCEPT !.op = "get",
                                   !.status = INTERNAL_SERVER_ERROR]
  /\ UNCHANGED <<store, nextId, cache, nullsFirst, apiConfigured, rpc, data, i,
                 processed, created, updated, task, outcome, runs, fetched,
                 runsOk, lastData, other, storeAtCall, cacheAtCall, cause>>

\* DELETE /countries/:name: the controller hands the name over as given; the
\* service returns the deleted record, and every rejection of the store (no
\* such record included) leaves its catch as a 500.  The controller's
\* NotFoundException is for a falsy return value.
deleteCountry(name) ==
  /\ rpc = "idle"
  /\ \/ /\ DeleteAllowed(store, name)
        /\ LET deleted == findFirst(store, name)
           IN /\ store' = DbDelete(store, name)
              /\ resp' = IF deleted = NoRecord
                           THEN [NoResp EXCEPT !.op = "delete",
                                               !.status = NOT_FOUND]
                           ELSE [NoResp EXCEPT !.op = "delete",
                                               !.status = NO_CONTENT]
        /\ UNCHANGED faults
     \/ /\ ~DeleteAllowed(store, name)
        /\ resp' = [NoResp EXCEPT !.op = "delete",
                                   !.status = INTERNAL_SERVER_ERROR]
        /\ UNCHANGED <<store, faults>>
     \/ \* the database is unreachable
        /\ faults < MaxFaults
        /\ faults' = faults + 1
        /\ resp' = [NoResp EXCEPT !.op = "delete",
                                   !.status = INTERNAL_SERVER_ERROR]
        /\ UNCHANGED store
  /\ UNCHANGED <<nextId, cache, nullsFirst, apiConfigured, rpc, data, i,
                 processed, created, updated, task, outcome, runs, fetched,
                 runsOk, lastData, other, storeAtCall, cacheAtCall, cause>>

\* GET /countries?region=&currency=&sort=
getAllCountries(region, currency, sort) ==
  /\ rpc = "idle"
  /\ \/ /\ IF region = NoArg /\ currency = NoArg /\ sort = ""
             THEN \E rows \in findMany(store, NoFilters, "", nullsFirst) :
                    resp' = [NoResp EXCEPT !.op = "list", !.status = 200,
                                           !.rows = rows]
             ELSE LET filters ==
                        [region |-> IF region # NoArg
                                      THEN capitalizeFirstWord(region)
                                      ELSE NoArg,
                         currency_code |-> IF currency # NoArg
                                             THEN toUpperCase(currency)
                                             ELSE NoArg,
                         sort |-> IF sort = "gdp_asc" THEN "asc"
                                  ELSE IF sort = "gdp_desc" THEN "desc"
                                  ELSE ""]
                  IN IF ~WhereValid(filters)
                       THEN resp' = [NoResp EXCEPT
                                       !.op = "list",
                                       !.status = INTERNAL_SERVER_ERROR]
                       ELSE \E rows \in findMany(store, filters, filters.sort,
                                                 nullsFirst) :
                              resp' = IF rows = <<>>
                                        THEN [NoResp EXCEPT
                                                !.op = "list",
                                                !.status = NOT_FOUND]
                                        ELSE [NoResp EXCEPT
                                                !.op = "list",
                                                !.status = 200,
                                                !.rows = rows]
        /\ UNCHANGED faults
     \/ \* findMany rejects: the catch turns it into a 500
        /\ faults < MaxFaults
        /\ faults' = faults + 1
        /\ resp' = [NoResp EXCEPT !.op = "list",
                                   !.status = INTERNAL_SERVER_ERROR]
  /\ UNCHANGED <<store, nextId, cache, nullsFirst, apiConfigured, rpc, data, i,
                 processed, created, updated, task, outcome, runs, fetched,
                 runsOk, lastData, other, storeAtCall, cacheAtCall, cause>>

\* GET /status: { total_countries: await db.country.count(),
\* last_refreshed_at: new Date() }; the date is the clock's reading at the call
getStatus ==
  /\ rpc = "idle"
  /\ \/ /\ resp' = [NoResp EXCEPT !.op = "status", !.status = 200,
                                   !.total_countries = DbCount(store)]
        /\ UNCHANGED faults
     \/ \* count rejects: the catch turns it into a 500
        /\ faults < MaxFaults
        /\ faults' = faults + 1
        /\ resp' = [NoResp EXCEPT !.op = "status",
                                   !.status = INTERNAL_SERVER_ERROR]
  /\ UNCHANGED <<store, nextId, cache, nullsFirst, apiConfigured, rpc, data, i,
                 processed, created, updated, task, outcome, runs, fetched,
                 runsOk, lastData, other, storeAtCall, cacheAtCall, cause>>

\* the names, regions, currencies and sort keys clients ask with
NameArgs == { <<"a", "l">>, <<"A", "l">>, <<"b", "e">>, <<"z", "z">> }

RegionArgs == { NoArg, <<"e", "u">>, <<"E", "U">>, <<"a", "f">> }

CurrencyArgs == { NoArg, <<"e", "u">> }

SortArgs == { "", "gdp_asc", "gdp_desc" }

Next ==
  \/ CallUpload
  \/ FetchReturn
  \/ \E j \in DOMAIN task : Find(j)
  \/ \E j \in DOMAIN task : Rate(j)
  \/ \E j \in DOMAIN task : Update(j)
  \/ \E j \in DOMAIN task : Create(j)
  \/ \E j \in DOMAIN task : RenderCount(j)
  \/ \E j \in DOMAIN task : RenderTop(j)
  \/ \E j \in DOMAIN task : RenderWrite(j)
  \/ BatchSettled
  \/ Respond
  \/ getSummaryImage
  \/ getStatus
  \/ \E name \in NameArgs : getSingleCountry(name)
  \/ \E region \in RegionArgs, currency \in CurrencyArgs, sort \in SortArgs :
       getAllCountries(region, currency, sort)

Spec == Init /\ [][Next]_vars

\* an await of some item task of the current batch settles
ItemStep ==
  \E j \in DOMAIN task :
    \/ Find(j)
    \/ Rate(j)
    \/ Update(j)
    \/ Create(j)
    \/ RenderCount(j)
    \/ RenderTop(j)
    \/ RenderWrite(j)

\* the refresh requests alone
NextRun ==
  \/ CallUpload
  \/ FetchReturn
  \/ ItemStep
  \/ BatchSettled
  \/ Respond

\* every external call returns or fails in the end: the fetch, every await of
\* an item task, and with them Promise.allSettled of the batch
SpecLive ==
  /\ Init
  /\ [][NextRun]_vars
  /\ WF_vars(FetchReturn)
  /\ WF_vars(ItemStep)
  /\ WF_vars(BatchSettled)

\* ------------------------------------------------------------------------
\* A second POST /countries/refresh that arrives while the run is in its batch
\* loop.  It executes the same uploadCountry on the same dataset with counters
\* of its own; its item tasks are taken one at a time, and only the elements
\* that are countries are followed (the others end in the catch at once).
\* ------------------------------------------------------------------------
\* what the second call leaves unchanged
OtherFrame == <<nullsFirst, apiConfigured, rpc, data, i, processed, created,
                updated, task, outcome, resp, faults, runs, fetched, runsOk,
                lastData, storeAtCall, cacheAtCall, cause>>

\* the second call has fetched the same dataset
OtherCall ==
  /\ rpc = "batch"
  /\ other = OtherOff
  /\ other' = [OtherOff EXCEPT
                 !.pc = "next",
                 !.data = data,
                 !.todo = {k \in DOMAIN data : data[k].kind = "country"}]
  /\ UNCHANGED <<store, nextId, cache>>
  /\ UNCHANGED OtherFrame

\* the next item task starts: nameLower, await findFirst, then the choice of
\* the update or the create path; with no item left the call returns
OtherFind ==
  /\ other.pc = "next"
  /\ IF other.todo = {}
       THEN other' = [other EXCEPT !.pc = "returned"]
       ELSE \E k \in other.todo :
              LET country == other.data[k]
                  nameLower == toLowerCase(country.name)
                  existing == findFirst(store, nameLower)
                  currencyCode == FirstCurrency(country)
                  started == [other EXCEPT !.k = k, !.todo = other.todo \ {k}]
              IN IF existing # NoRecord
                   THEN \E multiplier \in UpdateMultipliers :
                          other' = [started EXCEPT
                                      !.pc = "update",
                                      !.write = UpdateData(existing, country,
                                                           multiplier)]
                   ELSE IF currencyCode # NoCode
                     THEN other' = [started EXCEPT !.pc = "rate"]
                     ELSE other' =
                            [started EXCEPT
                               !.pc = "create",
                               !.write =
                                 newCountry(nameLower, country, currencyCode,
                                   Unknown,
                                   calculateEstimatedGdp(Unknown,
                                     country.population, 1000))]
  /\ UNCHANGED <<store, nextId, cache>>
  /\ UNCHANGED OtherFrame

\* await this.getExchangeRate(currencyCode), then calculateEstimatedGdp
OtherRate ==
  /\ other.pc = "rate"
  /\ \E reply \in {"ok", "timeout", "error"}, rates \in RateTables,
        multiplier \in CreateMultipliers :
       LET country == other.data[other.k]
           currencyCode == FirstCurrency(country)
           exchangeRate == getExchangeRate(currencyCode, reply, rates)
       IN other' = [other EXCEPT
                      !.pc = "create",
                      !.write =
                        newCountry(toLowerCase(country.name), country,
                          currencyCode, exchangeRate,
                          calculateEstimatedGdp(exchangeRate,
                            country.population, multiplier))]
  /\ UNCHANGED <<store, nextId, cache>>
  /\ UNCHANGED OtherFrame

\* await db.country.update, then updated++; a rejection ends in the catch
OtherUpdate ==
  /\ other.pc = "update"
  /\ LET nameLower == toLowerCase(other.data[other.k].name)
     IN IF UpdateAllowed(store, nameLower)
          THEN /\ store' = DbUpdate(store, nameLower, other.write)
               /\ other' = [other EXCEPT !.pc = "count",
                                         !.updated = other.updated + 1]
          ELSE /\ other' = [other EXCEPT !.pc = "next", !.write = NoData,
                                         !.failed = other.failed + 1]
               /\ UNCHANGED store
  /\ UNCHANGED <<nextId, cache>>
  /\ UNCHANGED OtherFrame

\* await db.country.create, then created++; a rejection ends in the catch
OtherCreate ==
  /\ other.pc = "create"
  /\ IF CreateAllowed(store, other.write)
       THEN /\ store' = DbCreate(store, other.write, nextId)
            /\ nextId' = nextId + 1
            /\ other' = [other EXCEPT !.pc = "count",
                                      !.created = other.created + 1]
       ELSE /\ other' = [other EXCEPT !.pc = "next", !.write = NoData,
                                      !.failed = other.failed + 1]
            /\ UNCHANGED <<store, nextId>>
  /\ UNCHANGED cache
  /\ UNCHANGED OtherFrame

\* generateSummaryImage of the second call: count, findMany, toFile
OtherRender ==
  /\ \/ /\ other.pc = "count"
        /\ other' = [other EXCEPT !.pc = "top", !.write = NoData,
                                  !.totalCountries = DbCount(store)]
        /\ UNCHANGED cache
     \/ /\ other.pc = "top"
        /\ \E top \in TopCountries(store, nullsFirst) :
             other' = [other EXCEPT !.pc = "write", !.topCountries = top]
        /\ UNCHANGED cache
     \/ /\ other.pc = "write"
        /\ cache' = Rasterize(generateSVG(other.totalCountries,
                                          other.topCountries))
        /\ other' = [other EXCEPT !.pc = "next", !.totalCountries = 0,
                                  !.topCountries = <<>>]
  /\ UNCHANGED <<store, nextId>>
  /\ UNCHANGED OtherFrame

NextOverlap ==
  \/ NextRun
  \/ OtherCall
  \/ OtherFind
  \/ OtherRate
  \/ OtherUpdate
  \/ OtherCreate
  \/ OtherRender

\* the service with room for one more run, over at most two items
InitOverlap ==
  /\ store \in InitStores
  /\ nextId = Cardinality(store) + 1
  /\ cache = NoBitmap
  /\ nullsFirst \in BOOLEAN
  /\ apiConfigured \in BOOLEAN
  /\ rpc = "idle"
  /\ data = <<>>
  /\ i = 0
  /\ processed = 0
  /\ created = 0
  /\ updated = 0
  /\ task = <<>>
  /\ outcome = NoOutcome
  /\ resp = NoResp
  /\ faults = 0
  /\ runs = MaxRuns - 1
  /\ fetched = MaxFetched - 2
  /\ runsOk = 0
  /\ lastData = <<>>
  /\ other = OtherOff
  /\ storeAtCall = {}
  /\ cacheAtCall = NoBitmap
  /\ cause = "none"

SpecOverlap == InitOverlap /\ [][NextOverlap]_vars

\* ------------------------------------------------------------------------
\* The service between runs: reads and deletions on a table that earlier runs
\* have filled
\* ------------------------------------------------------------------------
\* aland created with a resolved rate
AlandRecord ==
  newCountry(toLowerCase(Aland.name), Aland, FirstCurrency(Aland), 2,
             calculateEstimatedGdp(2, Aland.population, 1500))

\* benin created without a currency
BeninRecord ==
  newCountry(toLowerCase(Benin.name), Benin, FirstCurrency(Benin), Unknown,
             calculateEstimatedGdp(Unknown, Benin.population, 1000))

\* the tables runs leave behind: none, aland alone, aland and benin, and the
\* same after ALAND has updated aland
FilledStores ==
  LET one == DbCreate({}, AlandRecord, 1)
      two == DbCreate(one, BeninRecord, 2)
      upd == DbUpdate(two, toLowerCase(ALAND.name),
                      UpdateData(findFirst(two, toLowerCase(ALAND.name)),
                                 ALAND, 2000))
  IN InitStores \cup {one, two, upd}

InitApi ==
  /\ store \in FilledStores
  /\ nextId = Cardinality(store) + 1
  /\ nullsFirst \in BOOLEAN
  /\ cache \in {NoBitmap} \cup
              { Rasterize(generateSVG(DbCount(store), t)) :
                  t \in TopCountries(store, nullsFirst) }
  /\ apiConfigured \in BOOLEAN
  /\ rpc = "idle"
  /\ data = <<>>
  /\ i = 0
  /\ processed = 0
  /\ created = 0
  /\ updated = 0
  /\ task = <<>>
  /\ outcome = NoOutcome
  /\ resp = NoResp
  /\ faults = 0
  /\ runs = 0
  /\ fetched = 0
  /\ runsOk = 0
  /\ lastData = <<>>
  /\ other = OtherOff
  /\ storeAtCall = {}
  /\ cacheAtCall = NoBitmap
  /\ cause = "none"

NextApi ==
  \/ getSummaryImage
  \/ getStatus
  \/ \E name \in NameArgs : getSingleCountry(name)
  \/ \E name \in NameArgs : deleteCountry(name)
  \/ \E region \in RegionArgs, currency \in CurrencyArgs, sort \in SortArgs :
       getAllCountries(region, currency, sort)

SpecApi == InitApi /\ [][NextApi]_vars

\* ------------------------------------------------------------------------
\* Properties
\* ------------------------------------------------------------------------
\* uploadCountry has returned its counters
Finished == rpc = "done" /\ outcome.kind = "result"

\* the fetch stage of the run that has ended did not fail
FetchedOk == rpc = "done" /\ cause = "none"

\* items whose task ended in an exception
FailedItems == {j \in DOMAIN task : task[j].result \in {"failed", "rejected"}}

Records(n) == {r \in store : r.name = n}

InputNames == {toLowerCase(data[j].name) : j \in {k \in DOMAIN data : data[k].kind = "country"}}

\* C1: when a run whose fetch succeeded completes, created + updated + failed
\* equals total, the size of the input, failed being the number of items whose
\* processing raised an exception (the render after a create or update included).
C1_CountersAddUp ==
  Finished =>
    /\ outcome.total = Len(data)
    /\ outcome.created + outcome.updated + Cardinality(FailedItems) = outcome.total

\* C2 as stated: after a run the store holds exactly one record per unique
\* lower-cased name of the input.
C2_OneRecordPerInputName ==
  Finished => \A n \in InputNames : Cardinality(Records(n)) = 1

\* C2 amended: after a run the store holds at most one record per lower-cased
\* name; exactly one, the same row as before, for an input name that was present
\* before the run; exactly one for an input name that was absent and for which
\* an item's store write committed; none for an input name that was absent and
\* whose items all failed before their store write.
C2_OneRecordPerWrittenName ==
  Finished =>
    /\ \A r1, r2 \in store : r1.name = r2.name => r1 = r2
    /\ \A n \in InputNames :
         LET before == {r \in storeAtCall : r.name = n}
             wrote == \E j \in DOMAIN task :
                        /\ data[j].kind = "country"
                        /\ toLowerCase(data[j].name) = n
                        /\ task[j].wrote
         IN /\ before # {} =>
                 /\ Cardinality(Records(n)) = 1
                 /\ {r.id : r \in Records(n)} = {r.id : r \in before}
            /\ (before = {} /\ wrote) => Cardinality(Records(n)) = 1
            /\ (before = {} /\ ~wrote) => Records(n) = {}

\* a run over a dataset that names one country twice, in two letter cases,
\* ends with one record
C2_Witness ==
  /\ Finished
  /\ storeAtCall = {}
  /\ Len(data) = 2
  /\ toLowerCase(data[1].name) = toLowerCase(data[2].name)
  /\ Cardinality(store) = 1

\* C3: a run whose fetch fails reaches the caller as SourceUnavailable (408) on
\* a timeout and as SourceError (502) on an HTTP or transport error, never as
\* InternalError (500).
C3_FetchErrorClassified ==
  (rpc = "done" /\ cause \in FetchErrors) =>
    /\ outcome.status = (IF cause = "timeout" THEN REQUEST_TIMEOUT ELSE BAD_GATEWAY)
    /\ outcome.status # INTERNAL_SERVER_ERROR

\* C4: a run whose fetch fails writes nothing: the store and the cached bitmap
\* are as they were when the run was called, and no item was processed.
C4_NoWriteOnFetchFailure ==
  (rpc = "done" /\ cause \in FetchErrors) =>
    /\ outcome.kind = "HttpException"
    /\ store = storeAtCall
    /\ cache = cacheAtCall
    /\ task = <<>>
    /\ created = 0
    /\ updated = 0

\* a failed fetch over a table that holds a record
C4_Witness == rpc = "done" /\ cause = "http500" /\ store # {}

\* C5: a payload that is not an array makes the run fail with SourceError (502)
\* carrying the type-mismatch description, and no item is processed.
C5_NotArrayIsSourceError ==
  (rpc = "done" /\ cause = "notarray") =>
    /\ outcome.status = BAD_GATEWAY
    /\ outcome.message = "Invalid API response: expected array"
    /\ task = <<>>

\* C6, on states: a run whose fetch succeeded returns its counters, and by then
\* every item of every batch has been processed once and has a result
C6_AllItemsProcessed ==
  FetchedOk =>
    /\ outcome.kind = "result"
    /\ outcome.total = Len(data)
    /\ DOMAIN task = 1..Len(data)
    /\ \A j \in DOMAIN task :
         /\ task[j].pc = "done"
         /\ task[j].starts = 1
         /\ task[j].result \in {"created", "updated", "failed", "rejected"}
         /\ data[j].kind = "noname" => task[j].result = "failed"
         /\ data[j].kind = "null" => task[j].result = "rejected"

\* C6, on steps: an item task that ends in an exception is recorded as failed,
\* leaves the run in its batch loop and leaves every other task as it was
C6_FailureIsLocal ==
  \A j \in DOMAIN task :
    (task[j].pc \notin {"idle", "done"} /\ task'[j].pc = "done"
       /\ task'[j].result # task[j].path) =>
      /\ task'[j].result = "failed"
      /\ rpc' = "batch"
      /\ outcome' = outcome
      /\ \A k \in DOMAIN task : k # j => task'[k] = task[k]

\* C6: an exception while processing one item never aborts the batch or the
\* run: every other item of the batch and of the later batches is processed,
\* the failing item is recorded as failed and the run returns its counters.
C6_ItemFailureNeverAborts == []C6_AllItemsProcessed /\ [][C6_FailureIsLocal]_vars

\* a run with an injected store failure in which an item failed and an item of
\* the second batch was still updated
C6_Witness ==
  /\ Finished
  /\ faults > 0
  /\ \E j, k \in DOMAIN task :
       /\ task[j].result = "failed"
       /\ data[j].kind = "country"
       /\ task[k].batchNo = 2
       /\ task[k].result = "updated"

\* C7: the input is cut into consecutive batches of 10 in input order, every
\* item is in one batch and is started once, and no item of a batch is started
\* before every item task of the batches before it has settled.
C7_BatchesOfTenInOrder ==
  /\ \A j \in DOMAIN task :
       /\ task[j].starts <= 1
       /\ task[j].pc # "idle" =>
            /\ task[j].starts = 1
            /\ task[j].batchNo = (j - 1) \div 10 + 1
            /\ \A k \in DOMAIN task :
                 (k - 1) \div 10 < (j - 1) \div 10 => task[k].pc = "done"
  /\ FetchedOk => \A j \in 1..Len(data) : task[j].starts = 1

\* the eleventh item is being processed, in the second batch
C7_Witness ==
  /\ rpc = "batch"
  /\ Len(data) > 10
  /\ i = 10
  /\ task[11].pc = "find"
  /\ \E j \in 1..10 : task[j].result \in {"created", "updated"}

\* C8: at the end of a run that processed an item successfully the cached
\* report shows the store as it is then: its count and its top five.
C8_CacheReflectsFinalStore ==
  (Finished /\ \E j \in DOMAIN task : task[j].result \in {"created", "updated"}) =>
    cache \in { Rasterize(generateSVG(DbCount(store), t)) :
                t \in TopCountries(store, nullsFirst) }

\* C9: getSummaryImage fails with NotFound while no report has been stored, and
\* returns a non-empty bitmap once a run has completed successfully.
C9_ImageAfterRun ==
  [][getSummaryImage =>
       /\ cache = NoBitmap => resp'.status = NOT_FOUND
       /\ runsOk >= 1 =>
            /\ resp'.status = 200
            /\ resp'.body.width * resp'.body.height > 0]_vars

\* C10, the create step of an item whose name was not found: the resolver was
\* called once for the first listed code, or not at all when none is listed; the
\* new record has the lower-cased name, that code and the resolver's result;
\* the item counts as created and not as updated
C10_CreateStep ==
  \A j \in DOMAIN task :
    (task[j].pc = "create" /\ task'[j].pc = "count") =>
      LET c == data[j]
          none == Len(c.currencies) = 0
          new == store' \ store
      IN /\ task[j].existing = NoRecord
         /\ task[j].calls = (IF none THEN 0 ELSE 1)
         /\ none => task[j].exchangeRate = Unknown
         /\ Cardinality(new) = 1
         /\ \A r \in new :
              /\ r.name = toLowerCase(c.name)
              /\ r.currency_code = (IF none THEN NoCode ELSE c.currencies[1])
              /\ r.exchange_rate = task[j].exchangeRate
         /\ store \subseteq store'
         /\ created' = created + 1
         /\ updated' = updated

\* C10, the result: a task on the create path never ends as updated, and a
\* one-item dataset whose item was created yields {created: 1, updated: 0,
\* total: 1}
C10_Result ==
  /\ \A j \in DOMAIN task :
       (task[j].path = "created" /\ task'[j].pc = "done") =>
          task'[j].result \in {"created", "failed"}
  /\ (rpc = "batch" /\ rpc' = "done" /\ Len(data) = 1
        /\ task[1].result = "created") =>
       /\ outcome'.kind = "result"
       /\ outcome'.created = 1
       /\ outcome'.updated = 0
       /\ outcome'.total = 1

\* C10: an item whose normalized name is not in the store is created with the
\* lower-cased name, the first listed currency code (unknown when none is
\* listed, the resolver not being called) and the resolver's result as
\* exchange_rate, and counts as created, not as updated.
C10_NewItemCreated == [][C10_CreateStep /\ C10_Result]_vars

\* the one-item run of the scenario: the resolver answered 3 for the first code
C10_Witness ==
  /\ Finished
  /\ Len(data) = 1
  /\ task[1].result = "created"
  /\ outcome.created = 1
  /\ outcome.updated = 0
  /\ outcome.total = 1
  /\ \E r \in store : r.name = <<"a", "l">> /\ r.currency_code = EUR /\ r.exchange_rate = 3

\* C11, the resolver step: it always hands a value back to the item task, and
\* that value is unknown when the call timed out, failed or the answer does not
\* quote the code; the estimate is then unknown too
C11_ResolverStep ==
  \A j \in DOMAIN task :
    (task[j].pc = "rate" /\ task'[j] # task[j]) =>
      /\ task'[j].pc = "create"
      /\ task'[j].result = "none"
      /\ (task'[j].reply # "ok" \/ task'[j].quoted = Unknown) =>
           /\ task'[j].exchangeRate = Unknown
           /\ task'[j].write.exchange_rate = Unknown
           /\ task'[j].write.estimated_gdp = Unknown

\* C11, the create step after a resolver failure: the record is created with
\* unknown rate and unknown estimate and the item counts as created
C11_CreateStep ==
  \A j \in DOMAIN task :
    (task[j].pc = "create" /\ task'[j].pc = "count"
       /\ task[j].calls = 1 /\ (task[j].reply # "ok" \/ task[j].quoted = Unknown)) =>
      /\ created' = created + 1
      /\ \E r \in store' \ store :
           /\ r.exchange_rate = Unknown
           /\ r.estimated_gdp = Unknown
           /\ r.currency_code = data[j].currencies[1]

\* C11: the exchange-rate resolver never raises to its caller: on a timeout, a
\* transport error or a code absent from the response it returns unknown, and
\* the item is still created, with exchange_rate and estimated_gdp unknown.
C11_ResolverNeverRaises == [][C11_ResolverStep /\ C11_CreateStep]_vars

\* a record was created after the resolver timed out
C11_Witness ==
  \E j \in DOMAIN task :
    /\ task[j].pc = "count"
    /\ task[j].path = "created"
    /\ task[j].reply = "timeout"
    /\ created >= 1
    /\ \E r \in store : r.name = <<"a", "l">> /\ r.exchange_rate = Unknown
                        /\ r.estimated_gdp = Unknown /\ r.currency_code = EUR

\* C12: in every rendered report no record whose estimated_gdp is unknown
\* appears in the top-5 list: the list a render draws holds at most 5 records,
\* all with a known estimated_gdp, in descending order of estimated_gdp, also
\* when the store holds fewer than 5 records with a known estimated_gdp.
C12_TopFiveKnownOnly ==
  \A j \in DOMAIN task :
    task[j].pc = "write" =>
      LET top == task[j].topCountries IN
        /\ Len(top) <= 5
        /\ \A k \in DOMAIN top : top[k].estimated_gdp # Unknown
        /\ \A k \in DOMAIN top : \A l \in DOMAIN top :
             k < l => top[k].estimated_gdp >= top[l].estimated_gdp

\* C13: in every reachable state of the store a record whose exchange_rate is
\* unknown has an unknown estimated_gdp, after updates as after creates.
C13_UnknownRateUnknownGdp ==
  \A r \in store : r.exchange_rate = Unknown => r.estimated_gdp = Unknown

\* C14, the lookup: an item whose lower-cased name is in the store never goes
\* on to the resolver or to a create
C14_ExistingNeverCreated ==
  \A j \in DOMAIN task :
    (task[j].pc = "find" /\ task'[j].pc \in {"rate", "create"}) =>
      \A r \in store : r.name # toLowerCase(data[j].name)

\* C14, the update that commits: the one record of that name keeps id, name,
\* currency_code, exchange_rate and flag_url and takes capital, region and
\* population from the item; no other record changes; the resolver was not
\* called; updated grows by one and created does not
C14_UpdateStep ==
  \A j \in DOMAIN task :
    (task[j].pc = "update" /\ task'[j].pc = "count") =>
      /\ task[j].calls = 0
      /\ updated' = updated + 1
      /\ created' = created
      /\ \E old \in store :
           /\ old.name = toLowerCase(data[j].name)
           /\ \E new \in store' :
                /\ store' = (store \ {old}) \cup {new}
                /\ new.id = old.id
                /\ new.name = old.name
                /\ new.currency_code = old.currency_code
                /\ new.exchange_rate = old.exchange_rate
                /\ new.flag_url = old.flag_url
                /\ new.capital = data[j].capital
                /\ new.region = data[j].region
                /\ new.population = data[j].population

\* C14: for an item whose name already exists, uploadCountry overwrites only
\* capital, region, population and estimated_gdp; name, currency_code,
\* exchange_rate and flag_url of the record stay as they were, the resolver
\* is not invoked for the item, and it counts as updated.
C14_UpdateFrame == [][C14_ExistingNeverCreated /\ C14_UpdateStep]_vars

\* the item ALAND (flag f2, capital m) has updated the record aland, which
\* keeps its flag f1
C14_Witness ==
  \E j \in DOMAIN task :
    /\ task[j].pc = "count"
    /\ task[j].path = "updated"
    /\ data[j] = ALAND
    /\ updated >= 1
    /\ \E r \in store : r.name = <<"a", "l">> /\ r.capital = <<"m">>
                        /\ r.population = 300000 /\ r.flag_url = <<"f", "1">>

\* every stored name is in lower case and no two records share one
C15_StoredNames ==
  \A r \in store :
    /\ r.name = toLowerCase(r.name)
    /\ \A q \in store : q.name = r.name => q = r

\* a request naming a record in any letter case reaches that record
C15_AnyCaseAddresses ==
  \A n \in NameArgs : \A r \in store :
    r.name = toLowerCase(n) =>
      /\ (getSingleCountry(n) /\ faults' = faults) =>
           (resp'.status = 200 /\ resp'.rows = <<r>>)
      /\ (deleteCountry(n) /\ faults' = faults) =>
           (resp'.status = NO_CONTENT /\ store' = store \ {r})

\* C15: every record has a lower-case name that is unique in the store, and
\* every operation that takes a name (the lookup and update of ingestion,
\* GetCountry, DeleteCountry) normalizes the incoming name to lower case
\* before comparing, so a request in any letter case addresses the record.
C15_NamesNormalized ==
  [][C15_StoredNames /\ C15_StoredNames' /\ C15_AnyCaseAddresses]_vars

\* C16: DeleteCountry(name) fails with NotFound, not InternalError, when no
\* record matches, and leaves the store unchanged; when a record matches it
\* removes exactly that record.
C16_DeleteNotFound ==
  [][\A n \in NameArgs :
       (deleteCountry(n) /\ faults' = faults) =>
         /\ (\A r \in store : r.name # toLowerCase(n)) =>
              (resp'.status = NOT_FOUND /\ store' = store)
         /\ \A r \in store :
              r.name = n => (resp'.status = NO_CONTENT /\ store' = store \ {r})
    ]_vars

\* C17: for every region argument r, in any letter case, the listing filtered
\* by region = r returns exactly the records whose region equals r up to
\* letter case, and never a record of another region.
C17_RegionAnyCase ==
  [][\A region \in RegionArgs \ {NoArg} :
       (getAllCountries(region, NoArg, "") /\ faults' = faults) =>
         LET want == {r \in store : toLowerCase(r.region) = toLowerCase(region)}
             rows == resp'.rows
         IN IF want = {}
              THEN resp'.status = NOT_FOUND
              ELSE /\ resp'.status = 200
                   /\ {rows[k] : k \in DOMAIN rows} = want
                   /\ Len(rows) = Cardinality(want)
    ]_vars

\* C18: the listing with sort = gdp_asc or gdp_desc, with or without a region
\* or currency filter, returns the matching records in ascending resp.
\* descending order of estimated_gdp, fails with NotFound exactly when the
\* filtered result is empty, and never fails with InternalError.
C18_SortedListing ==
  [][\A region \in RegionArgs, currency \in CurrencyArgs,
        sort \in {"gdp_asc", "gdp_desc"} :
       (getAllCountries(region, currency, sort) /\ faults' = faults) =>
         LET want ==
               { r \in store :
                   /\ region # NoArg =>
                        toLowerCase(r.region) = toLowerCase(region)
                   /\ currency # NoArg =>
                        toLowerCase(r.currency_code) = toLowerCase(currency) }
             rows == resp'.rows
         IN /\ resp'.status # INTERNAL_SERVER_ERROR
            /\ resp'.status = NOT_FOUND <=> want = {}
            /\ resp'.status = 200 =>
                 /\ {rows[k] : k \in DOMAIN rows} = want
                 /\ \A k \in DOMAIN rows : \A l \in DOMAIN rows :
                      (k < l /\ rows[k].estimated_gdp # Unknown
                             /\ rows[l].estimated_gdp # Unknown) =>
                        IF sort = "gdp_asc"
                          THEN rows[k].estimated_gdp <= rows[l].estimated_gdp
                          ELSE rows[k].estimated_gdp >= rows[l].estimated_gdp
    ]_vars

\* the run that has returned read the same dataset as the run before it
Rerun == Finished /\ runsOk >= 2 /\ data = lastData

\* the records of S are those of T, with the same capital, region, population
SameFigures(S, T) ==
  /\ \A r \in S : \E q \in T :
       /\ q.id = r.id
       /\ q.name = r.name
       /\ q.capital = r.capital
       /\ q.region = r.region
       /\ q.population = r.population
  /\ \A q \in T : \E r \in S : r.id = q.id

UniqueNames(d) ==
  \A j \in DOMAIN d : \A k \in DOMAIN d :
    j # k => toLowerCase(d[j].name) # toLowerCase(d[k].name)

\* the first run stored every item: S holds its record with its figures
AllStored(d, S) ==
  \A j \in DOMAIN d :
    /\ d[j].kind = "country"
    /\ \E r \in S :
         /\ r.name = toLowerCase(d[j].name)
         /\ r.capital = d[j].capital
         /\ r.region = d[j].region
         /\ r.population = d[j].population

RenderFailed == {j \in DOMAIN task : task[j].wrote /\ task[j].result = "failed"}

\* C20: a failure of the rendering stage during a run is not swallowed by the
\* run: it reaches the caller of uploadCountry as an InternalError.
C20_RenderFailurePropagates ==
  (rpc = "done" /\ RenderFailed # {}) =>
    (outcome.kind = "HttpException" /\ outcome.status = INTERNAL_SERVER_ERROR)

\* C21: getStatus returns total_countries equal to the number of records in
\* the store at the moment of the call, after any sequence of ingestion runs
\* and deletions, and changes neither the store nor the cached report.
C21_StatusCountsStore ==
  [][(getStatus /\ faults' = faults) =>
       /\ resp'.status = 200
       /\ resp'.total_countries = Cardinality(store)
       /\ store' = store
       /\ cache' = cache]_vars

\* getStatus answered 1 after one of two records had been deleted
C21_Witness ==
  /\ resp.op = "status"
  /\ resp.status = 200
  /\ resp.total_countries = 1
  /\ Cardinality(store) = 1
  /\ nextId = 3

\* the stages of generateSummaryImage
RenderStages == {"count", "top", "write"}

\* C22, in every state: a task that is rendering has committed its own store
\* write, and the record of its item is in the store
C22_RenderOnlyAfterWrite ==
  \A j \in DOMAIN task :
    task[j].pc \in RenderStages =>
      /\ task[j].wrote
      /\ task[j].path \in {"created", "updated"}
      /\ \E r \in store : r.name = toLowerCase(data[j].name)

\* C22, in every step: a render starts in the step that commits the item's
\* create or update and in no other; the commit of a create or update always
\* starts the item's render; the cache file is written only by a task in the
\* last render stage; and a task that fails before its store write was never
\* rendering
C22_RenderSteps ==
  /\ \A j \in DOMAIN task :
       (task[j].pc \notin RenderStages /\ task[j].pc # "done"
          /\ task'[j].pc \in RenderStages) =>
         /\ task[j].pc \in {"create", "update"}
         /\ task'[j].pc = "count"
         /\ created' + updated' = created + updated + 1
  /\ \A j \in DOMAIN task :
       (task[j].pc \in {"create", "update"} /\ task'[j] # task[j]
          /\ created' + updated' = created + updated + 1) =>
         task'[j].pc = "count"
  /\ cache' # cache =>
       \E j \in DOMAIN task : task[j].pc = "write" /\ task[j].wrote
  /\ \A j \in DOMAIN task :
       (task[j].pc \notin RenderStages /\ task[j].pc # "done"
          /\ task'[j].pc = "done") =>
         (~task'[j].wrote /\ task'[j].result \in {"failed", "rejected"})

\* C22: during a run a render-and-cache-write is triggered after every item
\* that was created or updated and only after such an item: an item's render
\* starts only after its own store write has committed, and an item that
\* failed before its store write triggers no render.
C22_RenderPerWrittenItem ==
  [][C22_RenderOnlyAfterWrite /\ C22_RenderOnlyAfterWrite' /\ C22_RenderSteps]_vars

\* an item's render has written the report while an item of the same run had
\* failed before its store write
C22_Witness ==
  /\ rpc = "batch"
  /\ cache # cacheAtCall
  /\ \E j, k \in DOMAIN task :
       /\ task[j].result \in {"created", "updated"}
       /\ task[j].wrote
       /\ task[k].result = "failed"
       /\ data[k].kind = "country"
       /\ ~task[k].wrote

\* C23: whenever a record's estimated_gdp is known after a create or an
\* update, it is population * exchange_rate * m for a multiplier m with
\* 1000 <= m <= 2000, so the record has a known rate and the value lies in
\* [population * rate * 1000, population * rate * 2000] and is non-negative.
C23_GdpWithinRange ==
  \A r \in store :
    r.estimated_gdp # Unknown =>
      /\ r.exchange_rate # Unknown
      /\ r.estimated_gdp >= 0
      /\ r.estimated_gdp >= r.population * r.exchange_rate * 1000
      /\ r.estimated_gdp <= r.population * r.exchange_rate * 2000

\* C24: every started run of uploadCountry eventually settles, with its
\* counters or with an error, provided every external call eventually returns
\* or fails: no batch waits forever on an item task and the loop advances
\* past every batch.
C24_RunSettles == (rpc \in {"fetch", "batch"}) ~> (rpc = "done")

\* a run over two batches has settled with its counters
C24_Witness ==
  /\ Finished
  /\ Len(data) > batchSize
  /\ i >= Len(data)
  /\ \A j \in DOMAIN task : task[j].pc = "done" /\ task[j].starts = 1

\* no two records of the store share a name
C25_OneRecordPerName ==
  \A r \in store : \A q \in store : q.name = r.name => q = r

\* the records created since the run was called are those the two calls have
\* counted as created
C25_TalliesMatchStore ==
  rpc \in {"batch", "done"} =>
    Cardinality({r \in store : \A q \in storeAtCall : q.id # r.id})
      = created + other.created

\* a task that found no record and reaches its create after a concurrent task
\* has created the name loses: it ends as failed, is not counted as created
\* and leaves the store as it is; the same for a task of the overlapping call
C25_LoserFails ==
  /\ \A j \in DOMAIN task :
       (task[j].pc = "create" /\ task'[j] # task[j]
          /\ \E r \in store : r.name = toLowerCase(data[j].name)) =>
         /\ task'[j].result = "failed"
         /\ created' = created
         /\ store' = store
  /\ (other.pc = "create" /\ other' # other
        /\ \E r \in store : r.name = toLowerCase(other.data[other.k].name)) =>
       /\ other'.failed = other.failed + 1
       /\ other'.created = other.created
       /\ store' = store

\* C25: when two item tasks with the same normalized name run concurrently
\* (duplicates inside one batch, or two overlapping uploadCountry runs on the
\* same dataset) and both find no existing record, the store ends with at
\* most one record for that name, and the task that loses is tallied as
\* failed by its run rather than as created.
C25_DuplicateCreateRace ==
  [][/\ C25_OneRecordPerName /\ C25_OneRecordPerName'
     /\ C25_TalliesMatchStore /\ C25_TalliesMatchStore'
     /\ C25_LoserFails]_vars

\* a run over [Aland, ALAND] on an empty store has returned: one of its two
\* tasks created aland, the other lost, and so did the task of an overlapping
\* call
C25_Witness ==
  /\ Finished
  /\ data = <<Aland, ALAND>>
  /\ storeAtCall = {}
  /\ faults = 0
  /\ outcome.created = 1
  /\ \E j \in DOMAIN task : task[j].result = "failed" /\ ~task[j].wrote
  /\ other.failed >= 1
  /\ other.created = 0
  /\ Cardinality(store) = 1

====
